---- MODULE Spec2Model ----
(***************************************************************************)
(* A model of the search endpoint of nomad/search_endpoint.go: the RPC     *)
(* handlers Search.PrefixSearch and Search.FuzzySearch, the query function *)
(* each hands to the blocking-query harness, and the helpers they call     *)
(* (roundUUIDDownIfOdd, getResourceIter, namespaceFilter, getMatches,      *)
(* getFuzzyMatches, expandContext).                                        *)
(*                                                                         *)
(* A Go string is a sequence of one-character strings.  The state store,   *)
(* the ACL object and the blocking-query harness are collaborators whose   *)
(* code is not part of the endpoint; they are modelled from their          *)
(* documented contracts.                                                   *)
(***************************************************************************)
EXTENDS Integers, Sequences, FiniteSets, TLC

VARIABLES
    req,        \* the request: args.Prefix / args.Text, args.Context, args.AuthToken
    tables,     \* the state store: per context, the size of its two record families
    index,      \* the state store: per context, the collection's raft index
    nextIndex,  \* the state store: the raft index the next write gets
    pc,         \* where the handler is: "start", "admitted", "ran", "dirty", "done"
    reply,      \* reply.Matches, reply.Truncations, reply.Index
    err,        \* the error the handler returns ("none" while there is none)
    opened,     \* the contexts getResourceIter was called for, over the whole request
    queried,    \* per context, the prefix the last invocation handed to the store
    storeErr,   \* per context, the error the store answered the last invocation with
    indexRead,  \* the contexts state.Index was called for, over the whole request
    runs        \* how many times the harness has invoked the query function

vars == <<req, tables, index, nextIndex, pc, reply, err, opened, queried,
          storeErr, indexRead, runs>>

----------------------------------------------------------------------------
(* Bounds of the model. *)

\* the harness invokes the query function at most this many times per request
MaxRuns == 2
\* the largest record family holds truncateLimit + MaxExtra records at Init
MaxExtra == 1

----------------------------------------------------------------------------
(* Strings. *)

Alphabet ==
    << "-", "0", "1", "2", "3", "4", "5", "6", "7", "8", "9",
       "a", "b", "c", "d", "e", "f", "g", "h", "i", "j", "k", "l", "m",
       "n", "o", "p", "q", "r", "s", "t", "u", "v", "w", "x", "y", "z" >>

\* the byte order of the characters the model uses ('-' < digits < letters)
Ord == [c \in {Alphabet[i] : i \in 1..Len(Alphabet)} |->
            CHOOSE i \in 1..Len(Alphabet) : Alphabet[i] = c]

HexDigits == {"0", "1", "2", "3", "4", "5", "6", "7", "8", "9",
              "a", "b", "c", "d", "e", "f"}

\* strings.HasPrefix
HasPrefix(s, p) == Len(p) <= Len(s) /\ SubSeq(s, 1, Len(p)) = p

\* strings.Count(s, "-")
CountHyphens(s) == Cardinality({i \in 1..Len(s) : s[i] = "-"})

\* the Go comparison a < b of two strings
StrLess(a, b) ==
    LET n == IF Len(a) < Len(b) THEN Len(a) ELSE Len(b)
        d == {i \in 1..n : a[i] # b[i]}
    IN  IF d = {} THEN Len(a) < Len(b)
        ELSE LET i == CHOOSE j \in d : \A k \in d : j <= k
             IN  Ord[a[i]] < Ord[b[i]]

\* regexp.FindStringIndex for a pattern without metacharacters: the position
\* (from 0) of the first occurrence of text in name, or -1 for no match (nil)
FindStringIndex(text, name) ==
    LET at == {i \in 0..(Len(name) - Len(text)) :
                  SubSeq(name, i + 1, i + Len(text)) = text}
    IN  IF at = {} THEN -1 ELSE CHOOSE i \in at : \A j \in at : i <= j

Range(s) == {s[i] : i \in 1..Len(s)}

----------------------------------------------------------------------------
(* Contexts. *)

truncateLimit == 20

ossContexts ==
    << "allocs", "jobs", "nodes", "evals", "deployment", "plugins", "volumes",
       "scaling_policy", "namespaces" >>

fuzzyContexts == << "nodes", "namespaces", "jobs", "allocs" >>

allContexts == ossContexts

\* expandContext with the two union contexts taken for one another
expandContextSwapped(context) ==
    CASE context = "all"   -> fuzzyContexts
      [] context = "fuzzy" -> allContexts
      [] OTHER             -> << context >>

expandContext(context) ==
    CASE context = "all"   -> allContexts
      [] context = "fuzzy" -> fuzzyContexts
      [] OTHER             -> << context >>

Concrete == Range(ossContexts)

----------------------------------------------------------------------------
(* The state store: records, tables, prefix iterators, indices. *)

\* the two-digit lower-case hexadecimal numeral of n (0 <= n < 256)
Hex2(n) ==
    LET digits == << "0", "1", "2", "3", "4", "5", "6", "7", "8", "9",
                     "a", "b", "c", "d", "e", "f" >>
    IN  << digits[(n \div 16) + 1], digits[(n % 16) + 1] >>

\* the record type the table of a context holds
KindOf(ctx) ==
    CASE ctx = "jobs"           -> "Job"
      [] ctx = "evals"          -> "Evaluation"
      [] ctx = "allocs"         -> "Allocation"
      [] ctx = "nodes"          -> "Node"
      [] ctx = "deployment"     -> "Deployment"
      [] ctx = "plugins"        -> "CSIPlugin"
      [] ctx = "volumes"        -> "CSIVolume"
      [] ctx = "scaling_policy" -> "ScalingPolicy"
      [] ctx = "namespaces"     -> "Namespace"

\* the contexts whose table is indexed by a UUID field
UUIDKeyed == {"allocs", "evals", "nodes", "deployment"}

\* the identifiers of a table fall into two families, A before B
StemA(ctx) ==
    CASE ctx = "jobs"       -> << "w", "e", "-" >>
      [] ctx = "namespaces" -> << "d", "e", "v", "-" >>
      [] OTHER -> << "e", "3", "6", "7", "1", "f", "a", "4", "-", "2", "0" >>

StemB(ctx) ==
    CASE ctx = "jobs"       -> << "w", "e", "b", "-" >>
      [] ctx = "namespaces" -> << "p", "r", "o", "d", "-" >>
      [] OTHER -> << "e", "3", "6", "7", "1", "f", "a", "4", "-", "2", "1" >>

\* the names records carry, in table order, repeating
NamePool ==
    << << "b", "-", "w", "e", "b" >>,
       << "w", "e", "b" >>,
       << "a", "-", "w", "e", "b" >>,
       << "w", "e", "b", "x" >>,
       << "a", "p", "i" >>,
       << "w", "e", "b", "-", "b" >>,
       << "w", "e", "b" >> >>

\* the i-th identifier of a family of n: stem00, stem01, ... and last the
\* family's own two-character suffix tail
FamilyID(stem, i, n, tail) == stem \o (IF i = n THEN tail ELSE Hex2(i - 1))

\* the table of ctx, in the order of its identifier index.  With stray set,
\* the first record of the table is of a kind the endpoint has no case for
\* (never in the namespace table: namespaceFilter asserts the type).
Table(ctx, t) ==
    LET ida(i) == FamilyID(StemA(ctx), i, t.a, << "a", "a" >>)
        idb(i) == FamilyID(StemB(ctx), i, t.b, << "f", "f" >>)
        id(k)  == IF k <= t.a THEN ida(k) ELSE idb(k - t.a)
        name(k) == IF ctx = "namespaces" THEN id(k)
                   ELSE NamePool[((k - 1) % Len(NamePool)) + 1]
    IN  [k \in 1..(t.a + t.b) |->
            [Kind |-> IF t.stray /\ k = 1 /\ ctx # "namespaces"
                      THEN "Extension" ELSE KindOf(ctx),
             ID   |-> id(k),
             Name |-> name(k)]]

\* s without its hyphens
Sanitize(s) == SelectSeq(s, LAMBDA c : c # "-")

\* UUIDFieldIndex.PrefixFromArgs: the error a UUID index answers a prefix with
UUIDPrefixError(prefix) ==
    IF Len(prefix) > 36 THEN "UUID have 36 characters"
    ELSE IF CountHyphens(prefix) > 4 THEN "UUID should have maximum of 4"
    ELSE IF Len(Sanitize(prefix)) % 2 # 0 THEN "must be even length"
    ELSE IF \E i \in 1..Len(prefix) : prefix[i] \notin HexDigits \cup {"-"}
        THEN "Invalid UUID: encoding/hex"
    ELSE "none"

\* state.<Kind>ByIDPrefix / NamespacesByNamePrefix: the records of the table
\* whose key starts with the prefix, in key order, or the index's error.
\* fault names the context whose read fails for a reason other than the prefix.
ByIDPrefix(ctx, prefix, st, fault) ==
    LET uuid == ctx \in UUIDKeyed
        e    == IF uuid THEN UUIDPrefixError(prefix) ELSE "none"
        hit(r) == IF uuid THEN HasPrefix(Sanitize(r.ID), Sanitize(prefix))
                  ELSE HasPrefix(r.ID, prefix)
    IN  IF fault = ctx THEN [err |-> "memdb: txn failed", iter |-> << >>]
        ELSE IF e # "none" THEN [err |-> e, iter |-> << >>]
        ELSE [err |-> "none", iter |-> SelectSeq(Table(ctx, st[ctx]), hit)]

\* contextToIndex: the index table of a context
contextToIndex(ctx) == ctx

----------------------------------------------------------------------------
(* The ACL object. *)

\* Server.ResolveToken: the ACL object of a token; nil with ACLs disabled
ResolveToken(token) ==
    LET none == << "n", "o", "n", "e" >>
        prod == << "p", "r", "o", "d", "-" >>
    IN  CASE token = "anon"  ->
               [err |-> "none",
                acl |-> [nil |-> TRUE, nodeRead |-> FALSE, jobRead |-> FALSE,
                         namespaces |-> none]]
          [] token = "dev"   ->
               [err |-> "none",
                acl |-> [nil |-> FALSE, nodeRead |-> FALSE, jobRead |-> TRUE,
                         namespaces |-> prod]]
          [] token = "guest" ->
               [err |-> "none",
                acl |-> [nil |-> FALSE, nodeRead |-> FALSE, jobRead |-> FALSE,
                         namespaces |-> none]]
          [] OTHER ->
               [err |-> "ACL token not found",
                acl |-> [nil |-> TRUE, nodeRead |-> FALSE, jobRead |-> FALSE,
                         namespaces |-> none]]

\* acl.AllowNamespace: the policy names namespaces by a leading stem
AllowNamespace(aclObj, name) == HasPrefix(name, aclObj.namespaces)

sufficientSearchPerms(aclObj, context) ==
    IF aclObj.nil THEN TRUE
    ELSE CASE context = "nodes" -> aclObj.nodeRead
           [] context \in {"all", "fuzzy"} -> aclObj.nodeRead \/ aclObj.jobRead
           [] OTHER -> aclObj.jobRead

searchContexts(aclObj, context) == expandContext(context)

----------------------------------------------------------------------------
(* The helpers of the endpoint. *)

\* the filter returns TRUE for a record to drop
\* namespaceFilter dropping the namespaces the ACL allows
namespaceFilterInverted(aclObj, v) == AllowNamespace(aclObj, v.Name)

\* the filter returns TRUE for a record to drop
namespaceFilter(aclObj, v) == ~AllowNamespace(aclObj, v.Name)

\* memdb.NewFilterIterator: the records the filter does not drop
NewFilterIterator(iter, aclObj) ==
    SelectSeq(iter, LAMBDA v : ~namespaceFilter(aclObj, v))

getResourceIter(context, aclObj, prefix, st, fault) ==
    LET r == ByIDPrefix(context, prefix, st, fault)
    IN  IF context # "namespaces" THEN r
        ELSE IF r.err # "none" THEN r
        ELSE IF aclObj.nil THEN r
        ELSE [err |-> "none", iter |-> NewFilterIterator(r.iter, aclObj)]

\* roundUUIDDownIfOdd counting the hyphens into the length
roundUUIDDownIfOddWithHyphens(prefix, context) ==
    IF context = "jobs" THEN prefix
    ELSE IF Len(prefix) % 2 = 0 THEN prefix
    ELSE SubSeq(prefix, 1, Len(prefix) - 1)

roundUUIDDownIfOdd(prefix, context) ==
    IF context = "jobs" THEN prefix
    ELSE LET numHyphens == CountHyphens(prefix)
             l == Len(prefix) - numHyphens
         IN  IF l % 2 = 0 THEN prefix
             ELSE SubSeq(prefix, 1, Len(prefix) - 1)

\* getEnterpriseMatch of the open-source build: no record is recognised
getEnterpriseMatch(raw) == [id |-> << >>, ok |-> FALSE]

RecognisedKinds ==
    {"Job", "Evaluation", "Allocation", "Node", "Deployment", "CSIPlugin",
     "CSIVolume", "ScalingPolicy", "Namespace"}

\* getMatchesLoop without the check of the identifier against the prefix
RECURSIVE getMatchesLoopUnchecked(_, _, _, _)
getMatchesLoopUnchecked(iter, prefix, i, matches) ==
    IF ~(i < truncateLimit) THEN << matches, iter >>
    ELSE IF iter = << >> THEN << matches, iter >>
    ELSE LET raw == Head(iter)
             known == raw.Kind \in RecognisedKinds
         IN  IF ~known
                 THEN getMatchesLoopUnchecked(Tail(iter), prefix, i + 1, matches)
             ELSE getMatchesLoopUnchecked(Tail(iter), prefix, i + 1,
                                          Append(matches, raw.ID))

\* the loop of getMatches from counter i on: iter is what the iterator has
\* left, and the result is <<matches, what the iterator has left after it>>
RECURSIVE getMatchesLoop(_, _, _, _)
getMatchesLoop(iter, prefix, i, matches) ==
    IF ~(i < truncateLimit) THEN << matches, iter >>
    ELSE IF iter = << >> THEN << matches, iter >>
    ELSE LET raw == Head(iter)
             known == raw.Kind \in RecognisedKinds
             ent == getEnterpriseMatch(raw)
             id  == IF known THEN raw.ID ELSE ent.id
         IN  IF ~known /\ ~ent.ok
                 THEN getMatchesLoop(Tail(iter), prefix, i + 1, matches)
             ELSE IF ~HasPrefix(id, prefix)
                 THEN getMatchesLoop(Tail(iter), prefix, i + 1, matches)
             ELSE getMatchesLoop(Tail(iter), prefix, i + 1, Append(matches, id))

\* getMatches reporting truncation when the matches fill the limit
getMatchesFullMeansTruncated(iter, prefix) ==
    LET r == getMatchesLoop(iter, prefix, 0, << >>)
    IN  << r[1], Len(r[1]) >= truncateLimit >>

\* <<matches, truncated>>
getMatches(iter, prefix) ==
    LET r == getMatchesLoop(iter, prefix, 0, << >>)
    IN  << r[1], r[2] # << >> >>

\* FuzzyLess without the final comparison of the names
FuzzyLessNoNameOrder(A, B) ==
    IF A.pos < B.pos THEN TRUE
    ELSE IF B.pos < A.pos THEN FALSE
    ELSE Len(A.value) < Len(B.value)

\* the comparison getFuzzyMatches sorts by
FuzzyLess(A, B) ==
    IF A.pos < B.pos THEN TRUE
    ELSE IF B.pos < A.pos THEN FALSE
    ELSE IF Len(A.value) < Len(B.value) THEN TRUE
    ELSE IF Len(B.value) < Len(A.value) THEN FALSE
    ELSE StrLess(A.value, B.value)

\* sort.Slice: elements the comparison does not order are equal records here,
\* so every sorting algorithm gives the list an insertion sort gives
RECURSIVE Insert(_, _)
Insert(sorted, m) ==
    IF sorted = << >> THEN << m >>
    ELSE IF FuzzyLess(m, Head(sorted)) THEN << m >> \o sorted
    ELSE << Head(sorted) >> \o Insert(Tail(sorted), m)

RECURSIVE SortSlice(_)
SortSlice(ms) ==
    IF ms = << >> THEN << >>
    ELSE Insert(SortSlice(SubSeq(ms, 1, Len(ms) - 1)), ms[Len(ms)])

FuzzyNameKinds == {"Node", "Namespace", "Job", "Allocation"}

\* the loop of getFuzzyMatches, as getMatchesLoop
RECURSIVE getFuzzyMatchesLoop(_, _, _, _)
getFuzzyMatchesLoop(iter, text, i, matches) ==
    IF ~(i < truncateLimit) THEN << matches, iter >>
    ELSE IF iter = << >> THEN << matches, iter >>
    ELSE LET raw == Head(iter)
             name == IF raw.Kind \in FuzzyNameKinds THEN raw.Name ELSE << >>
             pos == FindStringIndex(text, name)
         IN  IF pos >= 0
                 THEN getFuzzyMatchesLoop(Tail(iter), text, i + 1,
                          Append(matches, [value |-> name, pos |-> pos]))
             ELSE getFuzzyMatchesLoop(Tail(iter), text, i + 1, matches)

\* <<results, truncated>>
getFuzzyMatches(iter, text) ==
    LET r == getFuzzyMatchesLoop(iter, text, 0, << >>)
        sorted == SortSlice(r[1])
    IN  << [k \in 1..Len(sorted) |-> sorted[k].value], r[2] # << >> >>

----------------------------------------------------------------------------
(* The query functions PrefixSearch and FuzzySearch hand to the harness. *)

\* ignoredError ignoring every store error
ignoredErrorAny(e) == TRUE

\* the switch on err.Error() in PrefixSearch: TRUE for the store errors that
\* are ignored for the context that raised them
ignoredError(e) ==
    \/ e = "Invalid UUID: encoding/hex"
    \/ e = "UUID have 36 characters"
    \/ e = "must be even length"
    \/ e = "UUID should have maximum of 4"

\* the prefix of contexts up to and including position i
Upto(contexts, i) == {contexts[j] : j \in 1..i}

\* indexLoop keeping the index read last instead of the greatest
RECURSIVE indexLoopLast(_, _, _, _, _)
indexLoopLast(contexts, i, idx, cur, indexFault) ==
    IF i > Len(contexts)
        THEN [err |-> "none", Index |-> cur, read |-> Range(contexts)]
    ELSE IF indexFault = contexts[i]
        THEN [err |-> "index lookup failed", Index |-> cur,
              read |-> {contexts[j] : j \in 1..i}]
    ELSE indexLoopLast(contexts, i + 1, idx, idx[contextToIndex(contexts[i])],
                       indexFault)

\* the loop that sets reply.Index, from position i on with cur the index so
\* far: state.Index fails for the context indexFault
RECURSIVE indexLoop(_, _, _, _, _)
indexLoop(contexts, i, idx, cur, indexFault) ==
    IF i > Len(contexts)
        THEN [err |-> "none", Index |-> cur, read |-> Range(contexts)]
    ELSE IF indexFault = contexts[i]
        THEN [err |-> "index lookup failed", Index |-> cur,
              read |-> Upto(contexts, i)]
    ELSE LET x == idx[contextToIndex(contexts[i])]
         IN  indexLoop(contexts, i + 1, idx, IF x > cur THEN x ELSE cur,
                       indexFault)

\* the run function of PrefixSearch, invoked on the store (st, idx) with the
\* reply as earlier invocations left it
PrefixRunResult(rq, aclObj, st, idx, rep, iterFault, indexFault) ==
    LET contexts == searchContexts(aclObj, rq.context)
        prefix   == roundUUIDDownIfOdd(rq.key, rq.context)
        got == [i \in 1..Len(contexts) |->
                   getResourceIter(contexts[i], aclObj, prefix, st, iterFault)]
        fatal == {i \in 1..Len(contexts) :
                     got[i].err # "none" /\ ~ignoredError(got[i].err)}
        iters == {i \in 1..Len(contexts) : got[i].err = "none"}
        keys  == {contexts[i] : i \in iters}
        at(k) == CHOOSE i \in iters : contexts[i] = k
        res   == [k \in keys |-> getMatches(got[at(k)].iter, rq.key)]
        ix    == indexLoop(contexts, 1, idx, rep.Index, indexFault)
    IN  IF fatal # {}
        THEN LET f == CHOOSE i \in fatal : \A j \in fatal : i <= j
             IN  [err |-> got[f].err, reply |-> rep,
                  opened |-> Upto(contexts, f),
                  queried |-> [c \in Upto(contexts, f) |-> prefix],
                  storeErr |-> [c \in Upto(contexts, f) |->
                                   got[CHOOSE i \in 1..f : contexts[i] = c].err],
                  indexRead |-> {}]
        ELSE [err |-> ix.err,
              reply |->
                [Matches |-> [k \in DOMAIN rep.Matches \cup keys |->
                                 IF k \in keys THEN res[k][1] ELSE rep.Matches[k]],
                 Truncations |-> [k \in DOMAIN rep.Truncations \cup keys |->
                                 IF k \in keys THEN res[k][2] ELSE rep.Truncations[k]],
                 Index |-> ix.Index],
              opened |-> Range(contexts),
              queried |-> [c \in Range(contexts) |-> prefix],
              storeErr |-> [c \in Range(contexts) |->
                               got[CHOOSE i \in 1..Len(contexts) : contexts[i] = c].err],
              indexRead |-> ix.read]

\* the run function of FuzzySearch
FuzzyRunResult(rq, aclObj, st, idx, rep, iterFault, indexFault) ==
    LET contexts == searchContexts(aclObj, "fuzzy")
        noPrefix == << >>
        got == [i \in 1..Len(contexts) |->
                   getResourceIter(contexts[i], aclObj, noPrefix, st, iterFault)]
        fatal == {i \in 1..Len(contexts) : got[i].err # "none"}
        keys  == Range(contexts)
        at(k) == CHOOSE i \in 1..Len(contexts) : contexts[i] = k
        res   == [k \in keys |-> getFuzzyMatches(got[at(k)].iter, rq.key)]
        ix    == indexLoop(contexts, 1, idx, rep.Index, indexFault)
    IN  IF fatal # {}
        THEN LET f == CHOOSE i \in fatal : \A j \in fatal : i <= j
             IN  [err |-> got[f].err, reply |-> rep,
                  opened |-> Upto(contexts, f),
                  queried |-> [c \in Upto(contexts, f) |-> noPrefix],
                  storeErr |-> [c \in Upto(contexts, f) |->
                                   got[CHOOSE i \in 1..f : contexts[i] = c].err],
                  indexRead |-> {}]
        ELSE [err |-> ix.err,
              reply |->
                [Matches |-> [k \in DOMAIN rep.Matches \cup keys |->
                                 IF k \in keys THEN res[k][1] ELSE rep.Matches[k]],
                 Truncations |-> [k \in DOMAIN rep.Truncations \cup keys |->
                                 IF k \in keys THEN res[k][2] ELSE rep.Truncations[k]],
                 Index |-> ix.Index],
              opened |-> Range(contexts),
              queried |-> [c \in Range(contexts) |-> noPrefix],
              storeErr |-> [c \in Range(contexts) |-> "none"],
              indexRead |-> ix.read]

----------------------------------------------------------------------------
(* The requests and stores the model starts from. *)

Tokens == {"anon", "dev", "guest", "expired"}

RequestContexts == Concrete \cup {"all", "fuzzy"}

Prefixes ==
    { << >>,
      << "e", "3", "6", "7", "1", "f", "a", "4", "-", "2", "1" >>,
      << "e", "3", "6", "7", "1", "f", "a", "4", "-", "2", "1", "f" >>,
      << "w", "e", "b" >>,
      << "p", "r", "o", "d", "-" >>,
      << "e", "-", "3", "-", "6", "-", "7", "-", "1", "-", "f" >> }

Texts == { << >>, << "w", "e", "b" >>, << "0" >> }

Requests ==
    [mode : {"prefix"}, key : Prefixes, context : RequestContexts, token : Tokens]
    \cup
    [mode : {"fuzzy"}, key : Texts, context : {"fuzzy", "jobs"}, token : Tokens]

\* the sizes of the two record families of a table
FamilySizes ==
    [a : {0, truncateLimit},
     b : {1, truncateLimit, truncateLimit + MaxExtra},
     stray : BOOLEAN]

\* the store reads that may fail for a reason other than the prefix: the
\* iterator of one context, or the index of one context
Faults == {<<"none", "none">>, <<"nodes", "none">>, <<"none", "jobs">>}

\* the contexts the model writes to while a request is blocked
WriteContexts == {"jobs", "nodes"}

InitIndex ==
    [c \in Concrete |->
        CASE c = "allocs" -> 3 [] c = "jobs" -> 7 [] c = "nodes" -> 2
          [] c = "evals" -> 5 [] c = "deployment" -> 1 [] c = "plugins" -> 4
          [] c = "volumes" -> 8 [] c = "scaling_policy" -> 6
          [] c = "namespaces" -> 0]

emptyReply == [Matches |-> << >>, Truncations |-> << >>, Index |-> 0]

Init ==
    /\ req \in Requests
    /\ \E t \in FamilySizes : tables = [c \in Concrete |-> t]
    /\ index = InitIndex
    /\ nextIndex = 9
    /\ pc = "start"
    /\ reply = emptyReply
    /\ err = "none"
    /\ opened = {}
    /\ queried = << >>
    /\ storeErr = << >>
    /\ indexRead = {}
    /\ runs = 0

----------------------------------------------------------------------------
(* The handlers. *)

\* PrefixSearch without the check of sufficientSearchPerms
PrefixSearchUngated ==
    /\ pc = "start"
    /\ req.mode = "prefix"
    /\ LET tok == ResolveToken(req.token)
       IN  IF tok.err # "none"
               THEN pc' = "done" /\ err' = tok.err
           ELSE pc' = "admitted" /\ err' = "none"
    /\ reply' = reply
    /\ UNCHANGED <<req, tables, index, nextIndex, opened, queried, storeErr,
                   indexRead, runs>>

\* PrefixSearch up to the call of blockingRPC
PrefixSearch ==
    /\ pc = "start"
    /\ req.mode = "prefix"
    /\ LET tok == ResolveToken(req.token)
       IN  IF tok.err # "none"
               THEN pc' = "done" /\ err' = tok.err
           ELSE IF ~sufficientSearchPerms(tok.acl, req.context)
               THEN pc' = "done" /\ err' = "Permission denied"
           ELSE pc' = "admitted" /\ err' = "none"
    /\ reply' = reply
    /\ UNCHANGED <<req, tables, index, nextIndex, opened, queried, storeErr,
                   indexRead, runs>>

\* FuzzySearch up to the call of blockingRPC
FuzzySearch ==
    /\ pc = "start"
    /\ req.mode = "fuzzy"
    /\ LET tok == ResolveToken(req.token)
       IN  IF tok.err # "none"
               THEN pc' = "done" /\ err' = tok.err
           ELSE IF ~sufficientSearchPerms(tok.acl, "fuzzy")
               THEN pc' = "done" /\ err' = "Permission denied"
           ELSE pc' = "admitted" /\ err' = "none"
    /\ reply' = reply
    /\ UNCHANGED <<req, tables, index, nextIndex, opened, queried, storeErr,
                   indexRead, runs>>

\* what one invocation r of a run function leaves behind
Invoked(r) ==
    /\ reply' = r.reply
    /\ err' = r.err
    /\ pc' = IF r.err = "none" THEN "ran" ELSE "done"
    /\ opened' = opened \cup r.opened
    /\ queried' = r.queried
    /\ storeErr' = r.storeErr
    /\ indexRead' = indexRead \cup r.indexRead
    /\ runs' = runs + 1
    /\ UNCHANGED <<req, tables, index, nextIndex>>

\* the harness invokes the run function of PrefixSearch
PrefixRun ==
    /\ pc \in {"admitted", "dirty"}
    /\ req.mode = "prefix"
    /\ runs < MaxRuns
    /\ \E f \in Faults :
          Invoked(PrefixRunResult(req, ResolveToken(req.token).acl, tables,
                                  index, reply, f[1], f[2]))

\* the harness invokes the run function of FuzzySearch
FuzzyRun ==
    /\ pc \in {"admitted", "dirty"}
    /\ req.mode = "fuzzy"
    /\ runs < MaxRuns
    /\ \E f \in Faults :
          Invoked(FuzzyRunResult(req, ResolveToken(req.token).acl, tables,
                                 index, reply, f[1], f[2]))

\* while the request is blocked, a write inserts a record of family B into
\* the table of ctx and takes the next raft index
StoreWrite ==
    /\ pc = "ran"
    /\ runs < MaxRuns
    /\ \E ctx \in WriteContexts :
          /\ tables' = [tables EXCEPT ![ctx].b = @ + 1]
          /\ index' = [index EXCEPT ![ctx] = nextIndex]
    /\ nextIndex' = nextIndex + 1
    /\ pc' = "dirty"
    /\ UNCHANGED <<req, reply, err, opened, queried, storeErr, indexRead, runs>>

\* the harness returns the reply to the caller
Return ==
    /\ pc = "ran"
    /\ pc' = "done"
    /\ UNCHANGED <<req, tables, index, nextIndex, reply, err, opened, queried,
                   storeErr, indexRead, runs>>

Next ==
    \/ PrefixSearch
    \/ FuzzySearch
    \/ PrefixRun
    \/ FuzzyRun
    \/ StoreWrite
    \/ Return

Spec == Init /\ [][Next]_vars

----------------------------------------------------------------------------
(* What the properties below speak of. *)

\* the ACL object the handler resolved
Acl == ResolveToken(req.token).acl

\* the last invocation of the run function returned nil and the store is as
\* that invocation read it: the reply is the response (Return changes pc alone)
Answered == pc = "ran"

\* the context the handler expands: FuzzySearch does not read args.Context
EffectiveContext == IF req.mode = "fuzzy" THEN "fuzzy" ELSE req.context

TopLevel ==
    {"allocs", "jobs", "nodes", "evals", "deployment", "plugins", "volumes",
     "scaling_policy", "namespaces"}

\* the expansion of a context, as the specification states it
Expansion(context) ==
    CASE context = "all"   -> TopLevel
      [] context = "fuzzy" -> {"nodes", "namespaces", "jobs", "allocs"}
      [] OTHER             -> {context}

\* the prefix-format errors the specification has PrefixSearch ignore
FormatErrors ==
    {"Invalid UUID: encoding/hex", "UUID have 36 characters",
     "must be even length", "UUID should have maximum of 4"}

\* the records the iterator of context k yielded to the last invocation
Yielded(k) == getResourceIter(k, Acl, queried[k], tables, "none").iter

First20(s) == SubSeq(s, 1, IF Len(s) < truncateLimit THEN Len(s) ELSE truncateLimit)

IDs(s) == [i \in 1..Len(s) |-> s[i].ID]

Max(S) == CHOOSE x \in S : \A y \in S : y <= x

Reverse(s) == [i \in 1..Len(s) |-> s[Len(s) + 1 - i]]

\* how often x occurs in the sequence s
Count(s, x) == Cardinality({i \in 1..Len(s) : s[i] = x})

P_e3671fa4_21 == << "e", "3", "6", "7", "1", "f", "a", "4", "-", "2", "1" >>

----------------------------------------------------------------------------
(* C1: a PrefixSearch with context "all" gives every concrete context c   *)
(* the match list and truncation flag a PrefixSearch with context c alone *)
(* gives on the same store.                                               *)
C1_AllAgreesWithSingle ==
    (Answered /\ req.mode = "prefix" /\ req.context = "all") =>
        \A c \in TopLevel :
            sufficientSearchPerms(Acl, c) =>
                LET single == PrefixRunResult([req EXCEPT !.context = c], Acl,
                                  tables, index, emptyReply, "none", "none").reply
                IN  /\ (c \in DOMAIN reply.Matches) = (c \in DOMAIN single.Matches)
                    /\ c \in DOMAIN reply.Matches =>
                          /\ reply.Matches[c] = single.Matches[c]
                          /\ reply.Truncations[c] = single.Truncations[c]

----------------------------------------------------------------------------
----------------------------------------------------------------------------
(* C3: in prefix mode every identifier in Matches starts with the prefix  *)
(* the caller gave, and Matches lists, in the iterator's order, the       *)
(* identifiers among the first 20 records that start with it.             *)
C3_ExactPrefixInOrder ==
    (Answered /\ req.mode = "prefix") =>
        \A k \in DOMAIN reply.Matches :
            LET m == reply.Matches[k]
                accepted(r) == r.Kind # "Extension" /\ HasPrefix(r.ID, req.key)
            IN  /\ \A i \in 1..Len(m) : HasPrefix(m[i], req.key)
                /\ m = IDs(SelectSeq(First20(Yielded(k)), accepted))

\* the store was asked a shortened prefix and a record it yielded was rejected
C3_Witness ==
    /\ Answered
    /\ req.mode = "prefix"
    /\ \E k \in DOMAIN reply.Matches :
          /\ queried[k] # req.key
          /\ reply.Matches[k] # << >>
          /\ Len(reply.Matches[k]) < Len(First20(Yielded(k)))

----------------------------------------------------------------------------
(* C4: the truncation flag of a context is TRUE exactly when its iterator *)
(* yields more than 20 records, whatever the number of matches.           *)
C4_TruncatedIffMoreThanLimit ==
    Answered =>
        \A k \in DOMAIN reply.Truncations :
            reply.Truncations[k] = (Len(Yielded(k)) > truncateLimit)

\* truncated with fewer than 20 matches, one record skipped for its kind
C4_Witness ==
    /\ Answered
    /\ req.mode = "prefix"
    /\ \E k \in DOMAIN reply.Truncations :
          /\ reply.Truncations[k]
          /\ Len(reply.Matches[k]) < truncateLimit
          /\ Yielded(k)[1].Kind = "Extension"

----------------------------------------------------------------------------
(* The order the ranking is to follow, and the name a record is matched   *)
(* by.                                                                    *)
C5_Before(text, x, y) ==
    LET px == FindStringIndex(text, x)
        py == FindStringIndex(text, y)
    IN  \/ px < py
        \/ px = py /\ Len(x) < Len(y)
        \/ px = py /\ Len(x) = Len(y) /\ StrLess(x, y)

C5_NameOf(r) == IF r.Kind \in {"Node", "Namespace", "Job", "Allocation"}
                THEN r.Name ELSE << >>

(* C5: the fuzzy result of a context is the names among the first 20      *)
(* records that match, with no inversion of (match position, name length, *)
(* name), and is the same when the records come in the opposite order.    *)
C5_FuzzyRanking ==
    (Answered /\ req.mode = "fuzzy") =>
        \A k \in DOMAIN reply.Matches :
            LET m == reply.Matches[k]
                first == First20(Yielded(k))
                names == [i \in 1..Len(first) |-> C5_NameOf(first[i])]
                hits  == SelectSeq(names, LAMBDA n : FindStringIndex(req.key, n) >= 0)
            IN  /\ Len(m) = Len(hits)
                /\ \A i \in 1..Len(hits) : Count(m, hits[i]) = Count(hits, hits[i])
                /\ \A i, j \in 1..Len(m) : i < j => ~C5_Before(req.key, m[j], m[i])
                /\ getFuzzyMatches(Reverse(first), req.key)[1] = m

\* a ranking of three names or more that is not the order of iteration
C5_Witness ==
    /\ Answered
    /\ req.mode = "fuzzy"
    /\ \E k \in DOMAIN reply.Matches :
          LET first == First20(Yielded(k))
              names == [i \in 1..Len(first) |-> C5_NameOf(first[i])]
              hits  == SelectSeq(names, LAMBDA n : FindStringIndex(req.key, n) >= 0)
          IN  Len(reply.Matches[k]) >= 3 /\ reply.Matches[k] # hits

----------------------------------------------------------------------------
(* C6: a caller the access gate denies gets the permission error, and the *)
(* handler obtains no iterator, reads no index and writes no result.      *)
C6_DeniedTouchesNothing ==
    (/\ pc # "start"
     /\ ResolveToken(req.token).err = "none"
     /\ ~sufficientSearchPerms(Acl, EffectiveContext)) =>
        /\ pc = "done"
        /\ err = "Permission denied"
        /\ runs = 0
        /\ opened = {}
        /\ indexRead = {}
        /\ reply = emptyReply

\* a token that may read jobs but not nodes is denied the nodes context
C6_Witness ==
    /\ pc = "done"
    /\ err = "Permission denied"
    /\ req.mode = "prefix"
    /\ req.context = "nodes"
    /\ req.token = "dev"

----------------------------------------------------------------------------
----------------------------------------------------------------------------
(* What one invocation of PrefixSearch's run function is to leave.        *)
C8_Invocation ==
    LET errs  == storeErr'
        fatal == {c \in DOMAIN errs : errs[c] \notin FormatErrors \cup {"none"}}
        m     == reply'.Matches
    IN  IF fatal # {}
        THEN /\ \E c \in fatal : err' = errs[c]
             /\ pc' = "done"
             /\ reply' = reply
        ELSE /\ err' \in {"none", "index lookup failed"}
             /\ DOMAIN errs = Expansion(req.context)
             /\ \A c \in DOMAIN errs :
                   IF errs[c] \in FormatErrors
                   THEN c \notin DOMAIN m \/ m[c] = << >>
                   ELSE /\ c \in DOMAIN m
                        /\ c \in DOMAIN reply'.Truncations
                        /\ << m[c], reply'.Truncations[c] >> =
                              getMatches(
                                  getResourceIter(c, Acl, queried'[c], tables,
                                                  "none").iter, req.key)

(* C8: in an invocation of PrefixSearch's run function, a store error     *)
(* outside the ignored prefix-format errors fails the request with that   *)
(* error and leaves the reply as it was; otherwise the request does not   *)
(* fail for an iterator, a context whose prefix-format error is ignored   *)
(* has no matches, and every other context of the expansion gets the      *)
(* results of its iterator.                                               *)
C8_StoreErrors ==
    [][(req.mode = "prefix" /\ runs' = runs + 1) => C8_Invocation]_vars

\* a second invocation fails on a store error after it ignored the
\* prefix-format error of another context, and the results of the first stay
C8_Witness ==
    /\ pc = "done"
    /\ req.mode = "prefix"
    /\ runs = 2
    /\ err = "memdb: txn failed"
    /\ \E c \in DOMAIN storeErr : storeErr[c] \in FormatErrors
    /\ \E d \in DOMAIN reply.Matches : reply.Matches[d] # << >>

----------------------------------------------------------------------------
(* C9: with an ACL object, the namespace matches name only namespaces the *)
(* ACL allows, and the 20-record cap and the truncation flag count only   *)
(* the allowed namespaces; with a nil ACL object nothing is filtered.     *)
C9_NamespacesFiltered ==
    (Answered /\ "namespaces" \in DOMAIN reply.Matches) =>
        LET m == reply.Matches["namespaces"]
            raw == ByIDPrefix("namespaces", queried["namespaces"], tables, "none").iter
            visible == IF Acl.nil THEN raw
                       ELSE SelectSeq(raw, LAMBDA r : AllowNamespace(Acl, r.Name))
            first == First20(visible)
            hit(r) == IF req.mode = "prefix" THEN HasPrefix(r.Name, req.key)
                      ELSE FindStringIndex(req.key, r.Name) >= 0
        IN  /\ ~Acl.nil => \A i \in 1..Len(m) : AllowNamespace(Acl, m[i])
            /\ reply.Truncations["namespaces"] = (Len(visible) > truncateLimit)
            /\ {m[i] : i \in 1..Len(m)} =
                  {first[i].Name : i \in {j \in 1..Len(first) : hit(first[j])}}

\* the store yields more than 20 namespaces, the ACL allows fewer, and the
\* response lists the allowed ones and is not truncated
C9_Witness ==
    /\ Answered
    /\ ~Acl.nil
    /\ "namespaces" \in DOMAIN reply.Matches
    /\ reply.Matches["namespaces"] # << >>
    /\ ~reply.Truncations["namespaces"]
    /\ Len(ByIDPrefix("namespaces", queried["namespaces"], tables, "none").iter)
           > truncateLimit

----------------------------------------------------------------------------
(* The scenario of C10: an answered prefix search for "e3671fa4-21" in    *)
(* the nodes context.                                                     *)
C10_Scenario ==
    /\ Answered
    /\ req.mode = "prefix"
    /\ req.context = "nodes"
    /\ req.key = P_e3671fa4_21

(* C10, as claimed: the prefix "e3671fa4-21" of a search in the nodes     *)
(* context reaches the store as "e3671fa4-2".                             *)
C10_QueriedRoundedDown ==
    C10_Scenario => queried["nodes"] = SubSeq(P_e3671fa4_21, 1, 10)

(* C10, amended: "e3671fa4-21" has ten characters besides its hyphen, an  *)
(* even number, and reaches the store unchanged; a node whose ID starts   *)
(* with "e3671fa4-21ff" is in the matches when it is among the first 20   *)
(* nodes whose ID starts with the prefix, and a node whose ID starts with *)
(* "e3671fa4-20aa" is not.                                                *)
C10_QueriedUnchanged ==
    C10_Scenario =>
        LET nodes == Table("nodes", tables["nodes"])
            cands == SelectSeq(nodes, LAMBDA r : HasPrefix(r.ID, P_e3671fa4_21))
            first == First20(cands)
            m     == reply.Matches["nodes"]
            in(id) == \E i \in 1..Len(m) : m[i] = id
        IN  /\ queried["nodes"] = P_e3671fa4_21
            /\ \A i \in 1..Len(first) :
                  (first[i].Kind = "Node"
                   /\ HasPrefix(first[i].ID, P_e3671fa4_21 \o << "f", "f" >>))
                      => in(first[i].ID)
            /\ \A i \in 1..Len(nodes) :
                  HasPrefix(nodes[i].ID,
                            SubSeq(P_e3671fa4_21, 1, 10) \o << "0", "a", "a" >>)
                      => ~in(nodes[i].ID)

\* the store holds both nodes and the response names the first alone
C10_Witness ==
    /\ C10_Scenario
    /\ reply.Matches["nodes"] = << P_e3671fa4_21 \o << "f", "f" >> >>
    /\ \E i \in 1..Len(Table("nodes", tables["nodes"])) :
          Table("nodes", tables["nodes"])[i].ID =
              SubSeq(P_e3671fa4_21, 1, 10) \o << "0", "a", "a" >>

====
